---------------------------- MODULE Spec2Model ----------------------------
(***************************************************************************)
(* A model of the API layer of the face-swap application:                  *)
(*   - process_face_swap   (facefusion/uis/components/api_wrapper.py)      *)
(*   - get_api_launch_config (facefusion/uis/layouts/api_config.py)        *)
(*                                                                         *)
(* Python strings are sequences of one-character strings, byte strings are *)
(* sequences of integers 0..255.  The request handler is a process per     *)
(* thread whose program counter walks the statements of the function; the  *)
(* state store of state_manager and the file system are shared.            *)
(***************************************************************************)
EXTENDS Integers, Sequences, FiniteSets, TLC

(***************************************************************************)
(* Bounds of the model.                                                    *)
(***************************************************************************)
\* invocations of process_face_swap started in one behaviour
MaxCalls == 2
\* exceptions raised by the environment (file system, state store, pipeline,
\* classifier) in one behaviour; a b64decode error is not one of them
MaxFaults == 1
\* length of the GRADIO_SERVER_PORT strings that are enumerated
MaxPortLen == 2
\* length of the GRADIO_SHARE strings that are enumerated
MaxShareLen == 4

(***************************************************************************)
(* Python values: None, str and list, with Python's truth value.           *)
(***************************************************************************)
PyNone == [type |-> "NoneType"]
PyStr(s) == [type |-> "str", s |-> s]
PyList(l) == [type |-> "list", l |-> l]

\* a faulty variant of Truthy: `is not None` in place of the truth value
TruthyIsNotNone(v) == v.type # "NoneType"

\* `if face_selector_age:` and the three tests like it
Truthy(v) ==
    CASE v.type = "NoneType" -> FALSE
      [] v.type = "str" -> v.s # ""
      [] v.type = "list" -> v.l # <<>>
      [] v.type = "path" -> TRUE

\* all sequences over S of length at most n
RECURSIVE SeqsUpTo(_, _)
SeqsUpTo(S, n) ==
    IF n = 0 THEN {<<>>}
    ELSE LET shorter == SeqsUpTo(S, n - 1)
         IN shorter \cup {Append(s, c) : s \in shorter, c \in S}

(***************************************************************************)
(* base64, as the standard library computes it (binascii.a2b_base64 in its *)
(* default, non-strict mode, and binascii.b2a_base64).                     *)
(***************************************************************************)
Base64Alphabet ==
    << "A", "B", "C", "D", "E", "F", "G", "H", "I", "J", "K", "L", "M",
       "N", "O", "P", "Q", "R", "S", "T", "U", "V", "W", "X", "Y", "Z",
       "a", "b", "c", "d", "e", "f", "g", "h", "i", "j", "k", "l", "m",
       "n", "o", "p", "q", "r", "s", "t", "u", "v", "w", "x", "y", "z",
       "0", "1", "2", "3", "4", "5", "6", "7", "8", "9", "+", "/" >>

Base64Chars == {Base64Alphabet[i] : i \in DOMAIN Base64Alphabet}

\* the 6-bit value of an alphabet character
Base64Value(c) == (CHOOSE i \in DOMAIN Base64Alphabet : Base64Alphabet[i] = c) - 1

\* the alphabet character of a 6-bit value
Base64Char(v) == Base64Alphabet[v + 1]

DecodeOk(bytes) == [ok |-> TRUE, bytes |-> bytes]
DecodeError(message) == [ok |-> FALSE, message |-> message]

IncorrectPadding == "Incorrect padding"
InvalidLength(n) ==
    "Invalid base64-encoded string: number of data characters ("
        \o ToString(n) \o ") cannot be 1 more than a multiple of 4"

\* the loop of a2b_base64 from position i on: characters outside the
\* alphabet are skipped, padding ends the input only once it completes a quad
RECURSIVE a2b_base64(_, _, _, _, _, _)
a2b_base64(s, i, quad_pos, leftchar, pads, out) ==
    IF i > Len(s)
    THEN IF quad_pos = 0 THEN DecodeOk(out)
         ELSE IF quad_pos = 1
              THEN DecodeError(InvalidLength((Len(out) \div 3) * 4 + 1))
              ELSE DecodeError(IncorrectPadding)
    ELSE IF s[i] = "="
    THEN IF quad_pos >= 2 /\ quad_pos + pads + 1 >= 4
         THEN DecodeOk(out)
         ELSE a2b_base64(s, i + 1, quad_pos, leftchar,
                         IF quad_pos >= 2 THEN pads + 1 ELSE pads, out)
    ELSE IF s[i] \notin Base64Chars
    THEN a2b_base64(s, i + 1, quad_pos, leftchar, pads, out)
    ELSE LET v == Base64Value(s[i])
         IN CASE quad_pos = 0 ->
                   a2b_base64(s, i + 1, 1, v, 0, out)
              [] quad_pos = 1 ->
                   a2b_base64(s, i + 1, 2, v % 16, 0,
                              Append(out, (leftchar * 4 + v \div 16) % 256))
              [] quad_pos = 2 ->
                   a2b_base64(s, i + 1, 3, v % 4, 0,
                              Append(out, (leftchar * 16 + v \div 4) % 256))
              [] quad_pos = 3 ->
                   a2b_base64(s, i + 1, 0, 0, 0,
                              Append(out, (leftchar * 64 + v) % 256))

\* base64.b64decode(s) with validate=False
b64decode(s) == a2b_base64(s, 1, 0, 0, 0, <<>>)

\* base64.b64encode(bytes).decode('utf-8')
RECURSIVE b64encode(_)
b64encode(bytes) ==
    IF Len(bytes) = 0 THEN <<>>
    ELSE IF Len(bytes) = 1
    THEN << Base64Char(bytes[1] \div 4), Base64Char((bytes[1] % 4) * 16),
            "=", "=" >>
    ELSE IF Len(bytes) = 2
    THEN << Base64Char(bytes[1] \div 4),
            Base64Char((bytes[1] % 4) * 16 + bytes[2] \div 16),
            Base64Char((bytes[2] % 16) * 4), "=" >>
    ELSE << Base64Char(bytes[1] \div 4),
            Base64Char((bytes[1] % 4) * 16 + bytes[2] \div 16),
            Base64Char((bytes[2] % 16) * 4 + bytes[3] \div 64),
            Base64Char(bytes[3] % 64) >>
         \o b64encode(SubSeq(bytes, 4, Len(bytes)))

\* a string is base64 when it is whole quads of alphabet characters, the last
\* quad possibly ending in one or two "="
IsBase64(s) ==
    /\ Len(s) % 4 = 0
    /\ \A i \in DOMAIN s :
          \/ s[i] \in Base64Chars
          \/ /\ s[i] = "="
             /\ i >= Len(s) - 1
             /\ \A j \in i .. Len(s) : s[j] = "="


(***************************************************************************)
(* The requests of the model.  A request is the argument list of           *)
(* process_face_swap; the four optional arguments are Python values.       *)
(***************************************************************************)
Threads == {"t1", "t2"}
MainThread == "t1"

\* "/w==" is base64 (of the byte 255), "A" raises in b64decode, and "!" is no
\* base64 but decodes (to no bytes) because b64decode skips foreign characters
ValidImage == <<"/", "w", "=", "=">>
Images == { ValidImage, <<"A">>, <<"!">> }

\* the four optional arguments together: all None, all empty, all supplied
Optionals ==
    { [face_selector_age |-> PyNone, face_selector_gender |-> PyNone,
       face_mask_types |-> PyNone, face_mask_regions |-> PyNone],
      [face_selector_age |-> PyStr(""), face_selector_gender |-> PyStr(""),
       face_mask_types |-> PyList(<<>>), face_mask_regions |-> PyList(<<>>)],
      [face_selector_age |-> PyStr("adult"), face_selector_gender |-> PyStr("male"),
       face_mask_types |-> PyList(<<"box">>), face_mask_regions |-> PyList(<<"skin">>)] }

Request(source_image, target_image, face_detector_model, optional) ==
    [ source_image |-> source_image,
      target_image |-> target_image,
      face_detector_model |-> face_detector_model,
      face_detector_size |-> "640x640",
      face_selector_mode |-> "reference",
      face_selector_age |-> optional.face_selector_age,
      face_selector_gender |-> optional.face_selector_gender,
      reference_face_distance |-> "0.6",
      face_mask_types |-> optional.face_mask_types,
      face_mask_blur |-> "0.3",
      face_mask_padding |-> <<0, 0, 0, 0>>,
      face_mask_regions |-> optional.face_mask_regions ]

DetectorModels == {"yoloface", "retinaface"}

\* one image of a request is the valid one
Requests ==
    { Request(s, g, m, o) : s \in Images, g \in Images, m \in DetectorModels, o \in Optionals }
        \ { Request(s, g, m, o) : s \in Images \ {ValidImage}, g \in Images \ {ValidImage},
                                  m \in DetectorModels, o \in Optionals }

\* the requests of the concurrent specification: they differ in the source
\* image and in the detector model only, and supply no optional argument
ConcurrentRequests ==
    { r \in Requests :
        /\ r.target_image = ValidImage
        /\ r.source_image # <<"!">>
        /\ r.face_selector_age = PyNone }

\* what conditional_process may leave in the output file
OutputFiles ==
    { [data |-> <<255>>, kind |-> "image"], [data |-> <<77, 97>>, kind |-> "video"] }

\* a path is a non-empty str that names the file `id`
PyPath(id) == [type |-> "path", id |-> id]

OptionalKeys ==
    {"face_selector_age", "face_selector_gender", "face_mask_types", "face_mask_regions"}

(***************************************************************************)
(* State.                                                                  *)
(***************************************************************************)
VARIABLES
    frame,    \* per thread: the locals of its invocation of process_face_swap
    store,    \* the state store of state_manager: key -> value
    fs,       \* the files that exist: id -> [data, kind]
    nextId,   \* the next unused file name
    calls,    \* invocations started so far
    faults,   \* exceptions the environment has raised so far
    environ,  \* os.environ: variable -> value, for the variables that are set
    config    \* what get_api_launch_config returned

vars == <<frame, store, fs, nextId, calls, faults, environ, config>>
handlerVars == <<frame, store, fs, nextId, calls, faults>>
configVars == <<environ, config>>

\* an environment variable is unset or has a value
Unset == [set |-> FALSE]
SetTo(s) == [set |-> TRUE, value |-> s]

NoEnviron ==
    [GRADIO_SERVER_NAME |-> Unset, GRADIO_SERVER_PORT |-> Unset,
     GRADIO_SHARE |-> Unset, GRADIO_ROOT_PATH |-> Unset]
NoConfig == [status |-> "none"]

NoRequest == [source_image |-> <<>>]
NoResponse == [status |-> "none"]

IdleFrame ==
    [ pc |-> "idle", req |-> NoRequest, item |-> 0,
      source_path |-> 0, target_path |-> 0, output_path |-> PyNone,
      result_base64 |-> <<>>, response |-> NoResponse,
      \* for the properties: the exception raised, the files created and
      \* unlinked, the file the pipeline produced, whether the output file
      \* existed when it was classified, and how the pipeline ended
      raised |-> <<>>, created |-> {}, unlinked |-> {}, produced |-> <<>>,
      classified |-> <<>>, pipeline |-> "not called" ]

\* the file named `id` exists
Exists(id) == id \in DOMAIN fs

\* os.path.exists(path): no file has the empty path
PathExists(path) == path.type = "path" /\ Exists(path.id)

\* the file system with file `id` holding `file`
WithFile(id, file) ==
    [x \in DOMAIN fs \cup {id} |-> IF x = id THEN file ELSE fs[x]]

\* the file system without file `id`
WithoutFile(id) == [x \in DOMAIN fs \ {id} |-> fs[x]]

\* state_manager.set_item(key, value): last write wins, no key is removed
set_item(key, value) ==
    [k \in DOMAIN store \cup {key} |-> IF k = key THEN value ELSE store[k]]

\* a faulty variant of ErrorResponse: one fixed message for every exception
ErrorResponseFixed(message) ==
    [status |-> "error", message |-> "Processing failed"]

\* the mapping returned from the except clause: str(e) as message
ErrorResponse(message) == [status |-> "error", message |-> message]

\* `except Exception as e: return {...}` (lines 117-121) applied to the frame
\* f: the invocation ends with the error response.  `raised` records the
\* exception for the properties.
Except(f, message) ==
    [f EXCEPT !.pc = "done",
              !.response = ErrorResponse(message),
              !.raised = <<message>>]

(***************************************************************************)
(* process_face_swap, statement by statement.  A step that can raise has   *)
(* the raising outcome as a disjunct; every exception ends in Except.      *)
(***************************************************************************)
\* messages of the exceptions of the environment
TempFileError == "[Errno 28] No space left on device"
StoreError == "state store failure"
PipelineError == "pipeline failure"
ReadError == "[Errno 5] Input/output error"
UnlinkError == "[Errno 13] Permission denied"
NoSuchFile == "[Errno 2] No such file or directory"
ClassifyError == "classifier failure"

\* the environment raises in the current statement
Fault == faults < MaxFaults /\ faults' = faults + 1

\* a caller invokes process_face_swap(**r) on thread t
Call(t, r) ==
    /\ frame[t].pc = "idle"
    /\ calls < MaxCalls
    /\ calls' = calls + 1
    /\ frame' = [frame EXCEPT ![t] = [IdleFrame EXCEPT !.pc = "write_source", !.req = r]]
    /\ UNCHANGED <<store, fs, nextId, faults, configVars>>

\* a file as NamedTemporaryFile(suffix='.jpg', delete=False) creates it
NamedTemporaryFile == [data |-> <<>>, kind |-> "image"]

\* lines 55-58: the file is created first and stays when b64decode or the
\* write raises
WriteSource(t) ==
    /\ frame[t].pc = "write_source"
    /\ LET f == frame[t]
           decoded == b64decode(f.req.source_image)
       IN \/ /\ Fault
             /\ frame' = [frame EXCEPT ![t] = Except(f, TempFileError)]
             /\ UNCHANGED <<fs, nextId>>
          \/ /\ IF decoded.ok THEN Fault ELSE UNCHANGED faults
             /\ fs' = WithFile(nextId, NamedTemporaryFile)
             /\ nextId' = nextId + 1
             /\ frame' = [frame EXCEPT ![t] =
                   Except([f EXCEPT !.created = @ \cup {nextId}],
                          IF decoded.ok THEN TempFileError ELSE decoded.message)]
          \/ /\ decoded.ok
             /\ fs' = WithFile(nextId, [NamedTemporaryFile EXCEPT !.data = decoded.bytes])
             /\ nextId' = nextId + 1
             /\ frame' = [frame EXCEPT ![t] =
                   [f EXCEPT !.created = @ \cup {nextId},
                             !.source_path = nextId,
                             !.pc = "write_target"]]
             /\ UNCHANGED faults
    /\ UNCHANGED <<store, calls, configVars>>

\* lines 60-63
WriteTarget(t) ==
    /\ frame[t].pc = "write_target"
    /\ LET f == frame[t]
           decoded == b64decode(f.req.target_image)
       IN \/ /\ Fault
             /\ frame' = [frame EXCEPT ![t] = Except(f, TempFileError)]
             /\ UNCHANGED <<fs, nextId>>
          \/ /\ IF decoded.ok THEN Fault ELSE UNCHANGED faults
             /\ fs' = WithFile(nextId, NamedTemporaryFile)
             /\ nextId' = nextId + 1
             /\ frame' = [frame EXCEPT ![t] =
                   Except([f EXCEPT !.created = @ \cup {nextId}],
                          IF decoded.ok THEN TempFileError ELSE decoded.message)]
          \/ /\ decoded.ok
             /\ fs' = WithFile(nextId, [NamedTemporaryFile EXCEPT !.data = decoded.bytes])
             /\ nextId' = nextId + 1
             /\ frame' = [frame EXCEPT ![t] =
                   [f EXCEPT !.created = @ \cup {nextId},
                             !.target_path = nextId,
                             !.pc = "set_item",
                             !.item = 1]]
             /\ UNCHANGED faults
    /\ UNCHANGED <<store, calls, configVars>>

\* a faulty variant of SourcePaths: the target's path in the list
SourcePathsOfTarget(f) == <<f.target_path>>

\* line 66: the list [source_path]
SourcePaths(f) == <<f.source_path>>

\* lines 66-85 as a table: the key, the value, and whether the statement is
\* executed (the four `if` tests)
StagedItems(f) ==
    << [key |-> "source_paths", value |-> SourcePaths(f), staged |-> TRUE],
       [key |-> "target_path", value |-> f.target_path, staged |-> TRUE],
       [key |-> "face_detector_model", value |-> f.req.face_detector_model, staged |-> TRUE],
       [key |-> "face_detector_size", value |-> f.req.face_detector_size, staged |-> TRUE],
       [key |-> "face_selector_mode", value |-> f.req.face_selector_mode, staged |-> TRUE],
       [key |-> "face_selector_age", value |-> f.req.face_selector_age,
        staged |-> Truthy(f.req.face_selector_age)],
       [key |-> "face_selector_gender", value |-> f.req.face_selector_gender,
        staged |-> Truthy(f.req.face_selector_gender)],
       [key |-> "reference_face_distance", value |-> f.req.reference_face_distance,
        staged |-> TRUE],
       [key |-> "face_mask_types", value |-> f.req.face_mask_types,
        staged |-> Truthy(f.req.face_mask_types)],
       [key |-> "face_mask_blur", value |-> f.req.face_mask_blur, staged |-> TRUE],
       [key |-> "face_mask_padding", value |-> f.req.face_mask_padding, staged |-> TRUE],
       [key |-> "face_mask_regions", value |-> f.req.face_mask_regions,
        staged |-> Truthy(f.req.face_mask_regions)] >>

\* the frame after statement `item` of lines 66-85
AfterItem(f) ==
    IF f.item = Len(StagedItems(f))
    THEN [f EXCEPT !.pc = "process", !.item = 0]
    ELSE [f EXCEPT !.item = @ + 1]

\* one statement of lines 66-85: state_manager.set_item(key, value)
SetItem(t) ==
    /\ frame[t].pc = "set_item"
    /\ LET f == frame[t]
           it == StagedItems(f)[f.item]
       IN /\ it.staged
          /\ \/ /\ store' = set_item(it.key, it.value)
                /\ frame' = [frame EXCEPT ![t] = AfterItem(f)]
                /\ UNCHANGED faults
             \/ /\ Fault
                /\ frame' = [frame EXCEPT ![t] = Except(f, StoreError)]
                /\ UNCHANGED store
    /\ UNCHANGED <<fs, nextId, calls, configVars>>

\* an `if` of lines 72-85 whose test is false: nothing is staged
SkipItem(t) ==
    /\ frame[t].pc = "set_item"
    /\ LET f == frame[t]
           it == StagedItems(f)[f.item]
       IN /\ ~it.staged
          /\ frame' = [frame EXCEPT ![t] = AfterItem(f)]
    /\ UNCHANGED <<store, fs, nextId, calls, faults, configVars>>

\* lines 88-89: output_path = conditional_process().  The pipeline raises,
\* returns None or an empty path, returns the path of a file it did not
\* produce, or produces the output file and returns its path.
Process(t) ==
    /\ frame[t].pc = "process"
    /\ LET f == frame[t]
       IN \/ /\ Fault
             /\ frame' = [frame EXCEPT ![t] =
                   Except([f EXCEPT !.pipeline = "raised"], PipelineError)]
             /\ UNCHANGED <<fs, nextId>>
          \/ /\ \E out \in {PyNone, PyStr("")} :
                   frame' = [frame EXCEPT ![t] =
                               [f EXCEPT !.output_path = out,
                                         !.pipeline = "no output",
                                         !.pc = "check_output"]]
             /\ UNCHANGED <<fs, nextId, faults>>
          \/ /\ frame' = [frame EXCEPT ![t] =
                   [f EXCEPT !.output_path = PyPath(nextId),
                             !.pipeline = "no output",
                             !.pc = "check_output"]]
             /\ nextId' = nextId + 1
             /\ UNCHANGED <<fs, faults>>
          \/ /\ \E file \in OutputFiles : fs' = WithFile(nextId, file)
             /\ nextId' = nextId + 1
             /\ frame' = [frame EXCEPT ![t] =
                   [f EXCEPT !.output_path = PyPath(nextId),
                             !.created = @ \cup {nextId},
                             !.produced = <<fs'[nextId]>>,
                             !.pipeline = "output",
                             !.pc = "check_output"]]
             /\ UNCHANGED faults
    /\ UNCHANGED <<store, calls, configVars>>

\* line 92: `if output_path and os.path.exists(output_path)`
CheckOutput(t) ==
    /\ frame[t].pc = "check_output"
    /\ LET f == frame[t]
       IN frame' = [frame EXCEPT ![t] =
             [f EXCEPT !.pc = IF Truthy(f.output_path) /\ PathExists(f.output_path)
                               THEN "read_output"
                               ELSE "failed_unlink_source"]]
    /\ UNCHANGED <<store, fs, nextId, calls, faults, configVars>>

\* lines 93-95: read the output file and encode it
ReadOutput(t) ==
    /\ frame[t].pc = "read_output"
    /\ LET f == frame[t]
       IN \/ /\ Exists(f.output_path.id)
             /\ frame' = [frame EXCEPT ![t] =
                   [f EXCEPT !.result_base64 = b64encode(fs[f.output_path.id].data),
                             !.pc = "unlink_source"]]
             /\ UNCHANGED faults
          \/ /\ IF Exists(f.output_path.id) THEN Fault ELSE UNCHANGED faults
             /\ frame' = [frame EXCEPT ![t] =
                   Except(f, IF Exists(f.output_path.id) THEN ReadError ELSE NoSuchFile)]
    /\ UNCHANGED <<store, fs, nextId, calls, configVars>>

\* a faulty variant of unlink: the file is left in place
unlinkKeeps(t, id, next_pc) ==
    /\ frame' = [frame EXCEPT ![t] = [@ EXCEPT !.pc = next_pc]]
    /\ UNCHANGED <<fs, faults>>

\* os.unlink(id) on thread t, continuing at next_pc
unlink(t, id, next_pc) ==
    \/ /\ Exists(id)
       /\ fs' = WithoutFile(id)
       /\ frame' = [frame EXCEPT ![t] =
             [@ EXCEPT !.unlinked = @ \cup {id}, !.pc = next_pc]]
       /\ UNCHANGED faults
    \/ /\ IF Exists(id) THEN Fault ELSE UNCHANGED faults
       /\ frame' = [frame EXCEPT ![t] =
             Except(@, IF Exists(id) THEN UnlinkError ELSE NoSuchFile)]
       /\ UNCHANGED fs

\* line 98
UnlinkSource(t) ==
    /\ frame[t].pc = "unlink_source"
    /\ unlink(t, frame[t].source_path, "unlink_target")
    /\ UNCHANGED <<store, nextId, calls, configVars>>

\* line 99
UnlinkTarget(t) ==
    /\ frame[t].pc = "unlink_target"
    /\ unlink(t, frame[t].target_path, "unlink_output")
    /\ UNCHANGED <<store, nextId, calls, configVars>>

\* line 100
UnlinkOutput(t) ==
    /\ frame[t].pc = "unlink_output"
    /\ unlink(t, frame[t].output_path.id, "return_success")
    /\ UNCHANGED <<store, nextId, calls, configVars>>

\* facefusion.filesystem.is_image: a still image, by inspecting the file at
\* the path
is_image(path) == PathExists(path) /\ fs[path.id].kind = "image"

\* lines 102-106: the success mapping; is_image(output_path) is evaluated
\* here, after line 100
ReturnSuccess(t) ==
    /\ frame[t].pc = "return_success"
    /\ LET f == frame[t]
       IN \/ /\ frame' = [frame EXCEPT ![t] =
                   [f EXCEPT !.pc = "done",
                             !.classified = <<PathExists(f.output_path)>>,
                             !.response =
                                 [status |-> "success",
                                  result |-> f.result_base64,
                                  output_type |-> IF is_image(f.output_path)
                                                  THEN "image" ELSE "video"]]]
             /\ UNCHANGED faults
          \/ /\ Fault
             /\ frame' = [frame EXCEPT ![t] = Except(f, ClassifyError)]
    /\ UNCHANGED <<store, fs, nextId, calls, configVars>>

\* line 109
FailedUnlinkSource(t) ==
    /\ frame[t].pc = "failed_unlink_source"
    /\ unlink(t, frame[t].source_path, "failed_unlink_target")
    /\ UNCHANGED <<store, nextId, calls, configVars>>

\* line 110
FailedUnlinkTarget(t) ==
    /\ frame[t].pc = "failed_unlink_target"
    /\ unlink(t, frame[t].target_path, "return_failed")
    /\ UNCHANGED <<store, nextId, calls, configVars>>

\* lines 112-115
ProcessingFailed == [status |-> "error", message |-> "Processing failed"]

ReturnFailed(t) ==
    /\ frame[t].pc = "return_failed"
    /\ frame' = [frame EXCEPT ![t] = [@ EXCEPT !.pc = "done", !.response = ProcessingFailed]]
    /\ UNCHANGED <<store, fs, nextId, calls, faults, configVars>>

\* the caller has the response; the thread is free for the next invocation
Return(t) ==
    /\ frame[t].pc = "done"
    /\ frame' = [frame EXCEPT ![t] = IdleFrame]
    /\ UNCHANGED <<store, fs, nextId, calls, faults, configVars>>

\* one step of the invocation on thread t
Step(t) ==
    \/ WriteSource(t)
    \/ WriteTarget(t)
    \/ SetItem(t)
    \/ SkipItem(t)
    \/ Process(t)
    \/ CheckOutput(t)
    \/ ReadOutput(t)
    \/ UnlinkSource(t)
    \/ UnlinkTarget(t)
    \/ UnlinkOutput(t)
    \/ ReturnSuccess(t)
    \/ FailedUnlinkSource(t)
    \/ FailedUnlinkTarget(t)
    \/ ReturnFailed(t)
    \/ Return(t)


HandlerInit ==
    /\ frame = [t \in Threads |-> IdleFrame]
    /\ store = [k \in {} |-> PyNone]
    /\ fs = [id \in {} |-> NamedTemporaryFile]
    /\ nextId = 1
    /\ calls = 0
    /\ faults = 0
    /\ environ = NoEnviron
    /\ config = NoConfig

\* one invocation at a time, as a caller that waits for each response
Next ==
    \/ \E r \in Requests : Call(MainThread, r)
    \/ Step(MainThread)

Spec == HandlerInit /\ [][Next]_vars

\* invocations on two threads, interleaved statement by statement
ConcurrentNext ==
    \E t \in Threads :
        \/ \E r \in ConcurrentRequests : Call(t, r)
        \/ Step(t)

ConcurrentSpec == HandlerInit /\ [][ConcurrentNext]_vars

(***************************************************************************)
(* get_api_launch_config.  The strings of the environment are sequences of *)
(* characters.                                                             *)
(***************************************************************************)
PyInt(n) == [type |-> "int", n |-> n]

UpperCase ==
    << "A", "B", "C", "D", "E", "F", "G", "H", "I", "J", "K", "L", "M",
       "N", "O", "P", "Q", "R", "S", "T", "U", "V", "W", "X", "Y", "Z" >>
LowerCase ==
    << "a", "b", "c", "d", "e", "f", "g", "h", "i", "j", "k", "l", "m",
       "n", "o", "p", "q", "r", "s", "t", "u", "v", "w", "x", "y", "z" >>

\* a faulty variant of lower: the string as it is
lowerIdentity(s) == s

\* str.lower()
lower(s) ==
    [i \in DOMAIN s |->
        IF \E k \in DOMAIN UpperCase : UpperCase[k] = s[i]
        THEN LowerCase[CHOOSE k \in DOMAIN UpperCase : UpperCase[k] = s[i]]
        ELSE s[i]]

Digits == <<"0", "1", "2", "3", "4", "5", "6", "7", "8", "9">>
IsDigit(c) == \E k \in DOMAIN Digits : Digits[k] = c
DigitValue(c) == (CHOOSE k \in DOMAIN Digits : Digits[k] = c) - 1

\* s without leading and trailing blanks
RECURSIVE strip(_)
strip(s) ==
    IF s = <<>> THEN s
    ELSE IF Head(s) = " " THEN strip(Tail(s))
    ELSE IF s[Len(s)] = " " THEN strip(SubSeq(s, 1, Len(s) - 1))
    ELSE s

\* the value of a string of digits and single underscores between digits
RECURSIVE DecimalValue(_, _)
DecimalValue(s, acc) ==
    IF s = <<>> THEN acc
    ELSE IF Head(s) = "_" THEN DecimalValue(Tail(s), acc)
    ELSE DecimalValue(Tail(s), acc * 10 + DigitValue(Head(s)))

IsDecimal(s) ==
    /\ s # <<>>
    /\ \A i \in DOMAIN s :
          \/ IsDigit(s[i])
          \/ /\ s[i] = "_"
             /\ i > 1 /\ i < Len(s)
             /\ IsDigit(s[i - 1]) /\ IsDigit(s[i + 1])

IntOk(n) == [ok |-> TRUE, n |-> n]
ValueError(s) ==
    [ok |-> FALSE, exception |-> "ValueError",
     message |-> "invalid literal for int() with base 10", literal |-> s]

\* int(v) of an int or of a str: blanks around, a sign, decimal digits
int(v) ==
    IF v.type = "int" THEN IntOk(v.n)
    ELSE LET t == strip(v.s)
             signed == t # <<>> /\ Head(t) \in {"+", "-"}
             body == IF signed THEN Tail(t) ELSE t
         IN IF IsDecimal(body)
            THEN IntOk(IF signed /\ Head(t) = "-"
                       THEN 0 - DecimalValue(body, 0) ELSE DecimalValue(body, 0))
            ELSE ValueError(v.s)

\* os.getenv(name, default)
getenv(name, default) ==
    IF environ[name].set THEN PyStr(environ[name].value) ELSE default

\* lines 10-26: the mapping, or the exception of int()
get_api_launch_config ==
    LET port == int(getenv("GRADIO_SERVER_PORT", PyInt(7860)))
    IN IF ~port.ok
       THEN [status |-> "raised", exception |-> port]
       ELSE [status |-> "returned",
             value |->
               [server_name |-> getenv("GRADIO_SERVER_NAME", PyStr(<<"0", ".", "0", ".", "0", ".", "0">>)).s,
                server_port |-> port.n,
                share |-> lower(getenv("GRADIO_SHARE", PyStr(<<"F", "a", "l", "s", "e">>)).s)
                              = <<"t", "r", "u", "e">>,
                auth |-> PyNone,
                max_threads |-> 40,
                root_path |-> getenv("GRADIO_ROOT_PATH", PyStr(<<>>)).s]]

\* the values of the environment variables that are enumerated
PortChars == {"7", "-", "a"}
ShareChars == {"t", "T", "r", "u", "e"}
Environs ==
    [ GRADIO_SERVER_NAME : {Unset, SetTo(<<"h">>)},
      GRADIO_SERVER_PORT : {Unset} \cup {SetTo(s) : s \in SeqsUpTo(PortChars, MaxPortLen)},
      GRADIO_SHARE : {Unset} \cup {SetTo(s) : s \in SeqsUpTo(ShareChars, MaxShareLen)},
      GRADIO_ROOT_PATH : {Unset, SetTo(<<"/">>)} ]


ConfigInit ==
    /\ environ \in Environs
    /\ config = NoConfig
    /\ frame = [t \in Threads |-> IdleFrame]
    /\ store = [k \in {} |-> PyNone]
    /\ fs = [id \in {} |-> NamedTemporaryFile]
    /\ nextId = 1
    /\ calls = 0
    /\ faults = 0

\* the application asks for its launch configuration
GetApiLaunchConfig ==
    /\ config = NoConfig
    /\ config' = get_api_launch_config
    /\ UNCHANGED <<environ, handlerVars>>

ConfigNext == GetApiLaunchConfig

ConfigSpec == ConfigInit /\ [][ConfigNext]_vars

(***************************************************************************)
(* The properties.                                                         *)
(***************************************************************************)
Done(t) == frame[t].pc = "done"

EnvironmentMessages ==
    {TempFileError, StoreError, PipelineError, ReadError, UnlinkError, NoSuchFile,
     ClassifyError}

\* C1: when the handler returns, whatever the exit path, none of the
\* temporary files that this invocation created (source, target, output)
\* exists any more.
C1_NoTempFileRemains ==
    \A t \in Threads : Done(t) => frame[t].created \cap DOMAIN fs = {}

\* C2: when an invocation calls conditional_process, the store holds under
\* face_detector_model, source_paths and target_path the values this same
\* invocation staged, also when another invocation runs concurrently.
C2_NoInterference ==
    \A t \in Threads :
        frame[t].pc = "process" =>
            /\ store["face_detector_model"] = frame[t].req.face_detector_model
            /\ store["source_paths"] = <<frame[t].source_path>>
            /\ store["target_path"] = frame[t].target_path

\* C3: an invocation ends with exactly one response, whose status is success
\* or error; when a step raised, the response is the error mapping whose
\* message is the text of that exception.
C3_ExceptionBecomesErrorResponse ==
    \A t \in Threads :
        /\ ~Done(t) => frame[t].response = NoResponse
        /\ Done(t) => frame[t].response.status \in {"success", "error"}
        /\ Done(t) /\ frame[t].raised # <<>> =>
              frame[t].response = [status |-> "error", message |-> frame[t].raised[1]]

\* an invocation has ended by an exception raised after files were unlinked
C3_Witness ==
    \E t \in Threads :
        /\ Done(t)
        /\ frame[t].raised = <<UnlinkError>>
        /\ frame[t].unlinked # {}

\* C4: when the pipeline produced an output file, a success response carries
\* the base64 encoding of the file's bytes and output_type is image exactly
\* when the file is a still image; the classification is made while the
\* output file still exists.
C4_ClassifiedWhileOutputExists ==
    \A t \in Threads :
        Done(t) /\ frame[t].response.status = "success" =>
            /\ frame[t].pipeline = "output"
            /\ b64decode(frame[t].response.result) = DecodeOk(frame[t].produced[1].data)
            /\ frame[t].response.output_type = "image"
                  <=> frame[t].produced[1].kind = "image"
            /\ frame[t].classified = <<TRUE>>

C6_InvalidBase64Rejected ==
    \A t \in Threads :
        /\ frame[t].pc # "idle"
        /\ ~IsBase64(frame[t].req.source_image) \/ ~IsBase64(frame[t].req.target_image)
        => /\ frame[t].pc \in {"write_source", "write_target", "done"}
           /\ Done(t) /\ (frame[t].raised = <<>> \/ frame[t].raised[1] \notin EnvironmentMessages) =>
                 /\ frame[t].response.status = "error"
                 /\ frame[t].raised # <<>>
                 /\ frame[t].response.message = frame[t].raised[1]

\* C7: get_api_launch_config raises nothing: it returns a record for every
\* environment, with port 7860 when GRADIO_SERVER_PORT is no decimal integer.
C7_NeverFails ==
    config # NoConfig =>
        /\ config.status = "returned"
        /\ environ.GRADIO_SERVER_PORT.set /\ ~int(PyStr(environ.GRADIO_SERVER_PORT.value)).ok
              => config.value.server_port = 7860

IsTrueIgnoringCase(s) ==
    /\ Len(s) = 4
    /\ s[1] \in {"t", "T"}
    /\ s[2] \in {"r", "R"}
    /\ s[3] \in {"u", "U"}
    /\ s[4] \in {"e", "E"}

\* C8: with no variable set the record is exactly server_name '0.0.0.0',
\* server_port 7860, share false, auth None, max_threads 40, root_path '';
\* and in every record returned, share is true exactly when GRADIO_SHARE is
\* set to 'true' in any letter case.
C8_DefaultsAndShare ==
    /\ config # NoConfig /\ environ = NoEnviron =>
          config = [status |-> "returned",
                    value |-> [server_name |-> <<"0", ".", "0", ".", "0", ".", "0">>,
                               server_port |-> 7860,
                               share |-> FALSE,
                               auth |-> PyNone,
                               max_threads |-> 40,
                               root_path |-> <<>>]]
    /\ config.status = "returned" =>
          (config.value.share
              <=> environ.GRADIO_SHARE.set /\ IsTrueIgnoringCase(environ.GRADIO_SHARE.value))

\* a record was returned with share true for GRADIO_SHARE=True
C8_Witness ==
    /\ config.status = "returned"
    /\ config.value.share
    /\ environ.GRADIO_SHARE = SetTo(<<"T", "r", "u", "e">>)

\* None, the empty str or the empty list
IsNoneOrEmpty(v) == v \in {PyNone, PyStr(""), PyList(<<>>)}

MandatoryKeys ==
    {"face_detector_model", "face_detector_size", "face_selector_mode",
     "reference_face_distance", "face_mask_blur", "face_mask_padding"}

\* C9: with one invocation at a time, conditional_process is called only
\* after both decoded images are in their temporary files and the store
\* holds this request's source_paths, target_path, the six mandatory
\* options, and each optional one the request supplied non-empty.
C9_StagedBeforeProcess ==
    \A t \in Threads :
        frame[t].pc = "process" =>
            LET f == frame[t]
            IN /\ Exists(f.source_path) /\ Exists(f.target_path)
               /\ DecodeOk(fs[f.source_path].data) = b64decode(f.req.source_image)
               /\ DecodeOk(fs[f.target_path].data) = b64decode(f.req.target_image)
               /\ {"source_paths", "target_path"} \cup MandatoryKeys \subseteq DOMAIN store
               /\ store["source_paths"] = <<f.source_path>>
               /\ store["target_path"] = f.target_path
               /\ \A k \in MandatoryKeys : store[k] = f.req[k]
               /\ \A k \in OptionalKeys :
                     ~IsNoneOrEmpty(f.req[k]) => k \in DOMAIN store /\ store[k] = f.req[k]

\* the second invocation is about to call the pipeline with another detector
\* model than the first one staged, and with its optional fields supplied
C9_Witness ==
    \E t \in Threads :
        /\ frame[t].pc = "process"
        /\ calls = 2
        /\ frame[t].source_path > 2
        /\ frame[t].req.face_detector_model = "retinaface"
        /\ frame[t].req.face_selector_age = PyStr("adult")

\* C10: a step of an invocation whose optional field is None or empty leaves
\* that key of the store as it is, and no step removes a key or changes one
\* except to the value being staged; so the pipeline runs with the value an
\* earlier invocation staged.
C10_EmptyOptionalKept ==
    [][ /\ DOMAIN store \subseteq DOMAIN store'
        /\ \A k \in DOMAIN store :
              store'[k] # store[k] =>
                  \E t \in Threads :
                      /\ frame[t].pc = "set_item"
                      /\ StagedItems(frame[t])[frame[t].item].key = k
                      /\ store'[k] = StagedItems(frame[t])[frame[t].item].value
        /\ \A t \in Threads, k \in OptionalKeys :
              frame[t].pc # "idle" /\ IsNoneOrEmpty(frame[t].req[k]) =>
                  /\ k \in DOMAIN store' <=> k \in DOMAIN store
                  /\ k \in DOMAIN store => store'[k] = store[k]
      ]_vars

\* an invocation without face_selector_age and with empty face_mask_types is
\* about to call the pipeline while the store holds an earlier request's
\* values for them
C10_Witness ==
    \E t \in Threads :
        /\ frame[t].pc = "process"
        /\ frame[t].req.face_selector_age \in {PyNone, PyStr("")}
        /\ frame[t].req.face_mask_types \in {PyNone, PyList(<<>>)}
        /\ {"face_selector_age", "face_mask_types"} \subseteq DOMAIN store
        /\ store["face_selector_age"] = PyStr("adult")
        /\ store["face_mask_types"] = PyList(<<"box">>)

=============================================================================
